---- MODULE Spec2Model ----
(***************************************************************************)
(* Model of the ferl_demos control loop:                                   *)
(*   - controllers/pid.py   : class PID (reset, set_gains, update_PID)     *)
(*   - demo_recorder.py     : class TestVel (force tick, position          *)
(*                            feedback, velocity emitter)                  *)
(*                                                                         *)
(* numpy arrays are modelled as 2-D arrays (sequences of rows) with        *)
(* numpy's broadcasting rules.  The numbers of the PID controller are      *)
(* integers; its inputs are multiples of ErrUnit, so that every division   *)
(* the code performs is exact.  The floats of the node are fixed-point     *)
(* numbers with FixDigits decimal digits.  NaN, +Inf and -Inf are tagged   *)
(* values.                                                                 *)
(*                                                                         *)
(* Five specifications: PidSpec (the controller under every sequence of    *)
(* its calls), Spec (the node under every sequence of its callbacks),      *)
(* NullifySpec (nullify_small_magnitudes on every input of its sets),      *)
(* ExecSpec (the callbacks run statement by statement by the executor) and *)
(* SvcSpec (the two service calls of register_callbacks).                  *)
(***************************************************************************)
EXTENDS Integers, Sequences, FiniteSets, TLC

(* ------------------------------ bounds --------------------------------- *)

\* largest value of the wall clock, and of an explicit dt
MaxClock == 2
\* number of update_PID calls between two resets
MaxUpdates == 2

(* ------------------------------ state ---------------------------------- *)

\* class PID
VARIABLES
  p_gain, i_gain, d_gain, i_min, i_max,   \* GainSet
  p_error_last, p_error, d_error, i_error, \* ControllerState
  pid_cmd,                                  \* PID._cmd
  last_time,                                \* PID._last_time (None or <<t>>)
  now,                                      \* time.time()
  ret,                                      \* value returned by the last PID call
  call,                                     \* the last PID call: operation and arguments
  run                                       \* update_PID calls since the last reset

gainVars == <<p_gain, i_gain, d_gain, i_min, i_max>>
stateVars == <<p_error_last, p_error, d_error, i_error, pid_cmd>>
pidVars == <<p_gain, i_gain, d_gain, i_min, i_max, p_error_last, p_error, d_error,
             i_error, pid_cmd, last_time, now, ret, call, run>>

\* class TestVel
VARIABLES
  latest_wrench,            \* None or the last wrench message
  interaction, can_move,    \* the mode flags
  cmd,                      \* TestVel.cmd
  current_twist,            \* the twist published last
  curr_force,               \* the conditioned force of the last completed tick
  joint_names, initial_joint_positions, joint_positions,
  curr_pos, curr_vel,
  reached_start, reached_goal,
  published,                \* what the last callback published: twists and velocities
  last_cb                   \* the last callback run, how it went, and whether the
                            \* position feedback wrote cmd after the last completed tick

nodeVars == <<latest_wrench, interaction, can_move, cmd, current_twist, curr_force,
              joint_names, initial_joint_positions, joint_positions, curr_pos, curr_vel,
              reached_start, reached_goal, published, last_cb>>

\* one application of nullify_small_magnitudes
VARIABLES
  nv_vector, nv_threshold,  \* the arguments of nullify_small_magnitudes
  nv_result                 \* None, or the value returned for them

nvVars == <<nv_vector, nv_threshold, nv_result>>

\* the executor running the callbacks of the node statement by statement
VARIABLES
  pc,                       \* the statement each callback is at ("idle": not running)
  locals                    \* the local variables of the running callbacks

execVars == <<pc, locals>>

\* the service calls made while the callbacks are registered
VARIABLES
  svc                       \* the statement register_callbacks is at, and the future

svcVars == <<svc>>

vars == <<pidVars, nodeVars, nvVars, execVars, svcVars>>

(* ----------------------- numpy array arithmetic ------------------------ *)

Max(a, b) == IF a >= b THEN a ELSE b

Rows(a) == Len(a)
Cols(a) == Len(a[1])
Shape(a) == <<Rows(a), Cols(a)>>

\* np.zeros((r, c))
Zeros(r, c) == [i \in 1..r |-> [j \in 1..c |-> 0]]
\* g * np.ones((r, c))
Ones(r, c, g) == [i \in 1..r |-> [j \in 1..c |-> g]]
\* g * np.eye(n)
Eye(n, g) == [i \in 1..n |-> [j \in 1..n |-> IF i = j THEN g ELSE 0]]
\* a column vector (n,1) from a sequence of n numbers
Col(s) == [i \in 1..Len(s) |-> <<s[i]>>]

\* numpy broadcasting of two 2-D arrays: an axis of length 1 is stretched
BIdx(k, n) == IF n = 1 THEN 1 ELSE k
BRows(a, b) == Max(Rows(a), Rows(b))
BCols(a, b) == Max(Cols(a), Cols(b))

\* a * b  (element-wise, broadcast)
BMul(a, b) ==
  [i \in 1..BRows(a, b) |-> [j \in 1..BCols(a, b) |->
      a[BIdx(i, Rows(a))][BIdx(j, Cols(a))] * b[BIdx(i, Rows(b))][BIdx(j, Cols(b))]]]

\* a + b  (element-wise, broadcast)
BAdd(a, b) ==
  [i \in 1..BRows(a, b) |-> [j \in 1..BCols(a, b) |->
      a[BIdx(i, Rows(a))][BIdx(j, Cols(a))] + b[BIdx(i, Rows(b))][BIdx(j, Cols(b))]]]

\* a - b  (element-wise, broadcast)
BSub(a, b) ==
  [i \in 1..BRows(a, b) |-> [j \in 1..BCols(a, b) |->
      a[BIdx(i, Rows(a))][BIdx(j, Cols(a))] - b[BIdx(i, Rows(b))][BIdx(j, Cols(b))]]]

\* s * a  for a scalar s
SMul(s, a) == [i \in 1..Rows(a) |-> [j \in 1..Cols(a) |-> s * a[i][j]]]

\* a / s  for a positive scalar s (exact on the inputs of the model)
SDiv(a, s) == [i \in 1..Rows(a) |-> [j \in 1..Cols(a) |-> a[i][j] \div s]]

IsSquare(a, n) == Rows(a) = n /\ \A i \in 1..Rows(a) : Len(a[i]) = n
OffDiagonalZero(a) ==
  \A i \in 1..Rows(a) : \A j \in 1..Len(a[i]) : i # j => a[i][j] = 0

(* ------------------------------ class PID ------------------------------ *)

\* self.num_dofs
num_dofs == 6

\* Python's None
None == <<>>

\* dt values: a finite float, NaN, +Inf, -Inf, or the default dt=None
Num(v) == [k |-> "num", v |-> v]
NaN == [k |-> "nan", v |-> 0]
PosInf == [k |-> "inf", v |-> 0]
NegInf == [k |-> "ninf", v |-> 0]
NoneDt == [k |-> "none", v |-> 0]

RECURSIVE Gcd(_, _)
Gcd(a, b) == IF b = 0 THEN a ELSE Gcd(b, a % b)
RECURSIVE LcmUpTo(_)
LcmUpTo(n) == IF n <= 1 THEN 1 ELSE (LcmUpTo(n - 1) * n) \div Gcd(LcmUpTo(n - 1), n)
\* every error entry is a multiple of ErrUnit, so (error - last) / dt is exact
ErrUnit == LcmUpTo(MaxClock)

\* the error vectors passed to update_PID: shape (num_dofs, 1)
ErrVecs ==
  { Zeros(num_dofs, 1),
    SMul(ErrUnit, Col(<<1, -1, 2, 0, -2, 1>>)),
    SMul(ErrUnit, Col(<<-1, 2, 1, 1, 0, -1>>)) }

\* the explicit dt arguments, and dt=None
DtArgs ==
  {Num(v) : v \in 0..MaxClock} \cup {NaN, PosInf, NegInf, NoneDt}

\* the gain sets given to the constructor and to set_gains: per-DOF column
\* vectors as TestVel.load_params builds them, and diagonal matrices as the
\* constructor's docstring describes them
GainSets ==
  { [p |-> Ones(num_dofs, 1, 1), i |-> Ones(num_dofs, 1, 1), d |-> Ones(num_dofs, 1, 1),
     i_min |-> -1, i_max |-> 1],
    [p |-> Ones(num_dofs, 1, 2), i |-> Ones(num_dofs, 1, 3), d |-> Ones(num_dofs, 1, 0),
     i_min |-> -2, i_max |-> 2],
    [p |-> Eye(num_dofs, 2), i |-> Eye(num_dofs, 1), d |-> Eye(num_dofs, 1),
     i_min |-> -1, i_max |-> 1] }


\* the record of update_PID calls since the last reset: their number,
\* whether all of them were non-degenerate with one error and one dt, the
\* error and the dt of the last call, and the error and the command of the
\* last non-degenerate call (zero when there was none)
FreshRun ==
  [n |-> 0, same |-> TRUE, e |-> None, dt |-> 0,
   good |-> Zeros(num_dofs, 1),
   good_cmd |-> Zeros(num_dofs, num_dofs)]

RunAfter(r, error, eff, returned) ==
  [n |-> r.n + 1,
   same |-> r.same /\ eff.k = "num" /\ eff.v # 0
            /\ (r.n = 0 \/ (r.e = error /\ r.dt = eff.v)),
   e |-> error,
   dt |-> eff.v,
   good |-> IF eff.k = "num" /\ eff.v # 0 THEN error ELSE r.good,
   good_cmd |-> IF eff.k = "num" /\ eff.v # 0 THEN returned ELSE r.good_cmd]

\* dt == 0 or math.isnan(dt) or math.isinf(dt)
IsDegenerate(dt) == dt.k \in {"nan", "inf", "ninf"} \/ (dt.k = "num" /\ dt.v = 0)

\* the dt update_PID works with: the argument, or the clock difference
EffectiveDt(dt, lt, cur_time) ==
  IF dt = NoneDt
  THEN Num(cur_time - (IF lt = None THEN cur_time ELSE lt[1]))
  ELSE dt

\* the clock reference set on the first call only
LastTimeAfter_InitOnly(dt, lt, cur_time) ==
  IF dt = NoneDt /\ lt = None THEN <<cur_time>> ELSE lt

\* _last_time after the clock-derivation step
LastTimeAfter(dt, lt, cur_time) ==
  IF dt = NoneDt THEN <<cur_time>> ELSE lt

\* the integral accumulation with the clamp to [i_min, i_max] that the code
\* does not apply
IErrorAfter_Clamped(ie, dt, pe) ==
  [k \in 1..Rows(ie) |-> [j \in 1..Cols(ie) |->
      LET v == ie[k][j] + dt * pe[k][j] IN
      IF v > i_max THEN i_max ELSE IF v < i_min THEN i_min ELSE v]]

\* self._i_error += dt * self._p_error
IErrorAfter(ie, dt, pe) == BAdd(ie, SMul(dt, pe))

\* the derivative taken after p_error_last was already overwritten
DErrorAfter_LastOverwritten(pe, pel, dt) == SDiv(BSub(pe, pe), dt)

\* self._d_error = (self._p_error - self._p_error_last) / dt
DErrorAfter(pe, pel, dt) == SDiv(BSub(pe, pel), dt)

\* p_term + i_term + d_term
CmdOf(pg, ig, dg, pe, ie, de) ==
  BAdd(BAdd(BMul(pg, pe), BMul(ig, ie)), BMul(dg, de))

\* a degenerate path that returns the stored command
DegenerateBranch_ReturnsCmd(error) ==
  /\ p_error' = error
  /\ ret' = pid_cmd
  /\ UNCHANGED <<p_error_last, d_error, i_error, pid_cmd>>

\* a degenerate path that advances p_error_last
DegenerateBranch_StoresLast(error) ==
  /\ p_error' = error
  /\ p_error_last' = error
  /\ ret' = Zeros(num_dofs, num_dofs)
  /\ UNCHANGED <<d_error, i_error, pid_cmd>>

\* a degenerate path that stores the zero matrix it returns
DegenerateBranch_StoresCmd(error) ==
  /\ p_error' = error
  /\ pid_cmd' = Zeros(num_dofs, num_dofs)
  /\ ret' = pid_cmd'
  /\ UNCHANGED <<p_error_last, d_error, i_error>>

\* the degenerate path: return np.zeros((num_dofs, num_dofs))
DegenerateBranch(error) ==
  /\ p_error' = error
  /\ ret' = Zeros(num_dofs, num_dofs)
  /\ UNCHANGED <<p_error_last, d_error, i_error, pid_cmd>>

\* the non-degenerate path
NormalBranch(error, dt) ==
  /\ p_error' = error
  /\ i_error' = IErrorAfter(i_error, dt, error)
  /\ d_error' = DErrorAfter(error, p_error_last, dt)
  /\ p_error_last' = error
  /\ pid_cmd' = CmdOf(p_gain, i_gain, d_gain, error, i_error', d_error')
  /\ ret' = pid_cmd'

\* a reset that keeps the integral error
reset_KeepsIntegral ==
  /\ p_error_last' = Zeros(num_dofs, 1)
  /\ p_error' = Zeros(num_dofs, 1)
  /\ d_error' = Zeros(num_dofs, 1)
  /\ pid_cmd' = Zeros(num_dofs, num_dofs)
  /\ last_time' = None
  /\ ret' = None
  /\ call' = [op |-> "reset", error |-> None, dt |-> NoneDt, gains |-> None]
  /\ run' = FreshRun
  /\ UNCHANGED <<gainVars, now, i_error>>
  /\ UNCHANGED <<nodeVars, nvVars, execVars, svcVars>>

\* PID.reset()
reset ==
  /\ p_error_last' = Zeros(num_dofs, 1)
  /\ p_error' = Zeros(num_dofs, 1)
  /\ d_error' = Zeros(num_dofs, 1)
  /\ i_error' = Zeros(num_dofs, 1)
  /\ pid_cmd' = Zeros(num_dofs, num_dofs)
  /\ last_time' = None
  /\ ret' = None
  /\ call' = [op |-> "reset", error |-> None, dt |-> NoneDt, gains |-> None]
  /\ run' = FreshRun
  /\ UNCHANGED <<gainVars, now>>
  /\ UNCHANGED <<nodeVars, nvVars, execVars, svcVars>>

\* a set_gains that stores the integral limits crosswise
set_gains_SwapsLimits(g) ==
  /\ p_gain' = g.p
  /\ i_gain' = g.i
  /\ d_gain' = g.d
  /\ i_min' = g.i_max
  /\ i_max' = g.i_min
  /\ ret' = None
  /\ call' = [op |-> "set_gains", error |-> None, dt |-> NoneDt, gains |-> g]
  /\ UNCHANGED <<p_error_last, p_error, d_error, i_error, pid_cmd, last_time, now, run>>
  /\ UNCHANGED <<nodeVars, nvVars, execVars, svcVars>>

\* PID.set_gains(p_gain, i_gain, d_gain, i_min, i_max)
set_gains(g) ==
  /\ p_gain' = g.p
  /\ i_gain' = g.i
  /\ d_gain' = g.d
  /\ i_min' = g.i_min
  /\ i_max' = g.i_max
  /\ ret' = None
  /\ call' = [op |-> "set_gains", error |-> None, dt |-> NoneDt, gains |-> g]
  /\ UNCHANGED <<stateVars, last_time, now, run>>
  /\ UNCHANGED <<nodeVars, nvVars, execVars, svcVars>>

\* PID.update_PID(p_error, dt=None)
update_PID(error, dt) ==
  LET eff == EffectiveDt(dt, last_time, now) IN
  /\ run.n < MaxUpdates
  /\ last_time' = LastTimeAfter(dt, last_time, now)
  /\ IF IsDegenerate(eff)
     THEN DegenerateBranch(error)
     ELSE NormalBranch(error, eff.v)
  /\ call' = [op |-> "update_PID", error |-> error, dt |-> dt, gains |-> None]
  /\ run' = RunAfter(run, error, eff, ret')
  /\ UNCHANGED <<gainVars, now>>
  /\ UNCHANGED <<nodeVars, nvVars, execVars, svcVars>>

\* the wall clock advances
Tick ==
  /\ now < MaxClock
  /\ now' = now + 1
  /\ UNCHANGED <<gainVars, stateVars, last_time, ret, call, run>>
  /\ UNCHANGED <<nodeVars, nvVars, execVars, svcVars>>

\* PID.__init__(p_gain, i_gain, d_gain, i_min, i_max): set_gains, then reset
PidInit ==
  /\ \E g \in GainSets :
       /\ p_gain = g.p
       /\ i_gain = g.i
       /\ d_gain = g.d
       /\ i_min = g.i_min
       /\ i_max = g.i_max
  /\ p_error_last = Zeros(num_dofs, 1)
  /\ p_error = Zeros(num_dofs, 1)
  /\ d_error = Zeros(num_dofs, 1)
  /\ i_error = Zeros(num_dofs, 1)
  /\ pid_cmd = Zeros(num_dofs, num_dofs)
  /\ last_time = None
  /\ now = 0
  /\ ret = None
  /\ call = [op |-> "init", error |-> None, dt |-> NoneDt, gains |-> None]
  /\ run = FreshRun

PidNext ==
  \/ reset
  \/ \E g \in GainSets : set_gains(g)
  \/ \E error \in ErrVecs, dt \in DtArgs : update_PID(error, dt)
  \/ Tick


(* ------------------- floats of the node (fixed point) ------------------ *)

\* decimal digits kept behind the point by the node's fixed-point numbers
FixDigits == 1

RECURSIVE Pow10(_)
Pow10(n) == IF n = 0 THEN 1 ELSE 10 * Pow10(n - 1)
\* the fixed-point value of 1.0
FixOne == Pow10(FixDigits)
\* the float n.0
Fx(n) == Num(n * FixOne)

\* float arithmetic: NaN is contagious
FAdd(a, b) == IF a.k = "num" /\ b.k = "num" THEN Num(a.v + b.v) ELSE NaN
FSub(a, b) == IF a.k = "num" /\ b.k = "num" THEN Num(a.v - b.v) ELSE NaN
\* n * a for an integer n
FMulInt(n, a) == IF a.k = "num" THEN Num(n * a.v) ELSE NaN
\* a ** 2, in units of FixOne^-2
FSquare(a) == IF a.k = "num" THEN Num(a.v * a.v) ELSE NaN
\* (num / den) * a, exact when den divides num * a
FMulFrac(num, den, a) == IF a.k = "num" THEN Num((num * a.v) \div den) ELSE NaN
FracExact(num, den, a) == a.k = "num" /\ (num * a.v) % den = 0

Vector3(x, y, z) == [x |-> x, y |-> y, z |-> z]
ZeroVector == Vector3(Num(0), Num(0), Num(0))

(* ----------------------------- class TestVel --------------------------- *)

\* self.Kp = 1.0
Kp == 1
\* self.Kd = 0.1, as the fraction KdNum / KdDen
KdNum == 1
KdDen == 10
\* the literal 3.0 of timer_callback: suppression and interaction threshold
Threshold == 3

\* x ** 2 + y ** 2 + z ** 2
SumSquares(v) == FAdd(FAdd(FSquare(v.x), FSquare(v.y)), FSquare(v.z))

\* math.sqrt(x ** 2 + y ** 2 + z ** 2) < threshold, for a finite threshold;
\* a comparison with a NaN magnitude is false
MagnitudeBelow(v, threshold) ==
  LET m2 == SumSquares(v) IN
  m2.k = "num" /\ threshold.k = "num" /\ threshold.v > 0
    /\ m2.v < threshold.v * threshold.v

\* np.isnan(magnitude)
MagnitudeIsNaN(v) == SumSquares(v).k = "nan"

\* a suppression that also drops a magnitude equal to the threshold
nullify_small_magnitudes_Inclusive(vector, threshold) ==
  LET m2 == SumSquares(vector) IN
  IF m2.k = "nan" \/ (threshold.k = "num" /\ threshold.v >= 0
                       /\ m2.v <= threshold.v * threshold.v)
  THEN ZeroVector
  ELSE vector

\* TestVel.nullify_small_magnitudes(vector, threshold)
nullify_small_magnitudes(vector, threshold) ==
  IF MagnitudeBelow(vector, threshold) \/ MagnitudeIsNaN(vector)
  THEN ZeroVector
  ELSE vector

\* the rotations the frame lookup may return, as rotation matrices:
\* identity and a quarter turn about z
Rotations ==
  { <<<<1, 0, 0>>, <<0, 1, 0>>, <<0, 0, 1>>>>,
    <<<<0, -1, 0>>, <<1, 0, 0>>, <<0, 0, 1>>>> }
IdentityRotation == <<<<1, 0, 0>>, <<0, 1, 0>>, <<0, 0, 1>>>>

\* TestVel.transform_vector(transform, vector): r.apply(vector_np)
transform_vector(r, vector) ==
  LET row(i) == FAdd(FAdd(FMulInt(r[i][1], vector.x), FMulInt(r[i][2], vector.y)),
                     FMulInt(r[i][3], vector.z))
  IN Vector3(row(1), row(2), row(3))

\* the outcomes of tf_buffer.lookup_transform: a transform, or one of the
\* three exceptions timer_callback catches
LookupFailures == {"LookupException", "ConnectivityException", "ExtrapolationException"}
LookupResults ==
  {[kind |-> "ok", rot |-> r] : r \in Rotations}
    \cup {[kind |-> f, rot |-> IdentityRotation] : f \in LookupFailures}

\* the wrench messages of the force/torque feed
Wrenches ==
  { \* force of magnitude sqrt(8) < 3, torque of magnitude 5
    [force |-> Vector3(Fx(2), Fx(2), Fx(0)), torque |-> Vector3(Fx(0), Fx(0), Fx(5))],
    \* force of magnitude 3, torque of magnitude 1
    [force |-> Vector3(Fx(1), Fx(2), Fx(2)), torque |-> Vector3(Fx(0), Fx(1), Fx(0))],
    \* force of magnitude 4, torque of magnitude 5
    [force |-> Vector3(Fx(4), Fx(0), Fx(0)), torque |-> Vector3(Fx(0), Fx(0), Fx(5))],
    \* force of magnitude NaN, torque of magnitude 1
    [force |-> Vector3(NaN, Fx(5), Fx(0)), torque |-> Vector3(Fx(0), Fx(1), Fx(0))] }

\* the joint names, and the two channel orders of the position feed
JointOrderA == <<"lift", "elbow", "wrist1", "wrist2", "wrist3", "pan">>
JointOrderB == <<"pan", "lift", "elbow", "wrist1", "wrist2", "wrist3">>
\* two robot configurations: position and velocity of each joint
JointSamples ==
  { [pos |-> [pan |-> 1, lift |-> 2, elbow |-> 3, wrist1 |-> 4, wrist2 |-> 5, wrist3 |-> 6],
     vel |-> [pan |-> 0, lift |-> 0, elbow |-> 0, wrist1 |-> 0, wrist2 |-> 0, wrist3 |-> 0]],
    [pos |-> [pan |-> 2, lift |-> 2, elbow |-> 4, wrist1 |-> 4, wrist2 |-> 6, wrist3 |-> 6],
     vel |-> [pan |-> 1, lift |-> 0, elbow |-> 1, wrist1 |-> 0, wrist2 |-> 1, wrist3 |-> 0]] }
\* the JointState messages: one sample in one channel order
JointMsg(order, sample) ==
  [name |-> order,
   position |-> [i \in 1..Len(order) |-> sample.pos[order[i]]],
   velocity |-> [i \in 1..Len(order) |-> sample.vel[order[i]]]]
JointMsgs ==
  {JointMsg(JointOrderA, sm) : sm \in JointSamples}
    \cup {JointMsg(JointOrderB, CHOOSE sm \in JointSamples : sm.pos.pan = 1)}

\* np.roll(a, 1)
Roll(a) == [i \in 1..Len(a) |-> a[IF i = 1 THEN Len(a) ELSE i - 1]]

\* a square matrix with the given diagonal
Diag(s) == [i \in 1..Len(s) |-> [j \in 1..Len(s) |-> IF i = j THEN s[i] ELSE 0]]

\* the commands controller.get_command may return (the controller is the
\* ferl package's PIDController, outside this repository)
Commands ==
  { Diag(<<1, 2, 3, 4, 5, 6>>), Diag(<<0, 0, 0, 0, 0, 0>>) }

\* whether the controller's path_start_T and path_end_T are set: the end of
\* the path is not reached before its start
PathStates ==
  { [start_T |-> FALSE, end_T |-> FALSE],
    [start_T |-> TRUE, end_T |-> FALSE],
    [start_T |-> TRUE, end_T |-> TRUE] }


\* TwistStamped()
ZeroTwist == [frame_id |-> "", linear |-> ZeroVector, angular |-> ZeroVector]

Nothing == [twist |-> <<>>, vel |-> <<>>]

\* the state TestVel.load_params leaves behind
NodeInit ==
  /\ latest_wrench = None
  /\ interaction = FALSE
  /\ can_move = TRUE
  /\ cmd = Zeros(num_dofs, num_dofs)
  /\ current_twist = ZeroTwist
  /\ curr_force = None
  /\ joint_names = None
  /\ initial_joint_positions = None
  /\ joint_positions = None
  /\ curr_pos = None
  /\ curr_vel = None
  /\ reached_start = FALSE
  /\ reached_goal = FALSE
  /\ published = Nothing
  /\ last_cb = [cb |-> "load_params", lookup |-> "none", sample |-> FALSE, prior |-> FALSE,
                fresh |-> FALSE]

\* TestVel.wrench_callback(msg)
wrench_callback(msg) ==
  /\ latest_wrench' = msg
  /\ published' = Nothing
  /\ last_cb' = [cb |-> "wrench_callback", lookup |-> "none", sample |-> FALSE,
                 prior |-> interaction, fresh |-> last_cb.fresh]
  /\ UNCHANGED <<interaction, can_move, cmd, current_twist, curr_force, joint_names,
                 initial_joint_positions, joint_positions, curr_pos, curr_vel,
                 reached_start, reached_goal>>
  /\ UNCHANGED <<pidVars, nvVars, execVars, svcVars>>

\* a compliance law whose damping term is added
ComplianceAxis_AddsDamping(signal, previous) ==
  FAdd(FMulFrac(1, Kp, signal), FMulFrac(KdNum, KdDen, previous))

\* (1 / Kp) * signal - Kd * previous, on the three axes
ComplianceAxis(signal, previous) ==
  FSub(FMulFrac(1, Kp, signal), FMulFrac(KdNum, KdDen, previous))
ComplianceVector(signal, previous) ==
  Vector3(ComplianceAxis(signal.x, previous.x),
          ComplianceAxis(signal.y, previous.y),
          ComplianceAxis(signal.z, previous.z))

\* the twist timer_callback computes from the conditioned force and torque
ComplianceTwist(force, torque, previous) ==
  [frame_id |-> "tool0",
   linear |-> ComplianceVector(force, previous.linear),
   angular |-> ComplianceVector(torque, previous.angular)]

\* Kd * previous is representable in FixDigits digits on every axis
Representable(tw) ==
  \A v \in {tw.linear, tw.angular} :
    /\ FracExact(KdNum, KdDen, v.x)
    /\ FracExact(KdNum, KdDen, v.y)
    /\ FracExact(KdNum, KdDen, v.z)

\* a free-motion branch that keeps the command of the trajectory path
FreeMotionBranch_KeepsCmd ==
  /\ interaction' = FALSE
  /\ can_move' = TRUE
  /\ published' = Nothing
  /\ UNCHANGED <<current_twist, cmd>>

\* a free-motion branch that clears the stored twist
FreeMotionBranch_ResetsTwist ==
  /\ interaction' = FALSE
  /\ can_move' = TRUE
  /\ cmd' = Zeros(num_dofs, num_dofs)
  /\ published' = Nothing
  /\ current_twist' = ZeroTwist

\* a free-motion branch that leaves can_move as it was
FreeMotionBranch_KeepsCanMove ==
  /\ interaction' = FALSE
  /\ cmd' = Zeros(num_dofs, num_dofs)
  /\ published' = Nothing
  /\ UNCHANGED <<current_twist, can_move>>

\* the branch of timer_callback taken below the interaction threshold
FreeMotionBranch ==
  /\ interaction' = FALSE
  /\ can_move' = TRUE
  /\ cmd' = Zeros(num_dofs, num_dofs)
  /\ published' = Nothing
  /\ UNCHANGED current_twist

\* an interaction branch that publishes the twist without storing it
InteractionBranch_KeepsPrevious(force, torque) ==
  LET twist == ComplianceTwist(force, torque, current_twist) IN
  /\ Representable(current_twist)
  /\ interaction' = TRUE
  /\ can_move' = FALSE
  /\ cmd' = Zeros(num_dofs, num_dofs)
  /\ published' = [twist |-> <<twist>>, vel |-> <<>>]
  /\ UNCHANGED current_twist

\* the branch of timer_callback taken at or above the interaction threshold
InteractionBranch(force, torque) ==
  LET twist == ComplianceTwist(force, torque, current_twist) IN
  /\ Representable(current_twist)
  /\ interaction' = TRUE
  /\ can_move' = FALSE
  /\ cmd' = Zeros(num_dofs, num_dofs)
  /\ current_twist' = twist
  /\ published' = [twist |-> <<twist>>, vel |-> <<>>]

\* an abandoned tick that stops the motion
AbandonedTick_StopsMotion ==
  /\ published' = Nothing
  /\ can_move' = FALSE
  /\ cmd' = Zeros(num_dofs, num_dofs)
  /\ UNCHANGED <<interaction, current_twist, curr_force>>

\* a tick without a force sample, or whose frame lookup raised one of the
\* three exceptions caught: nothing is written, nothing is published
AbandonedTick ==
  /\ published' = Nothing
  /\ UNCHANGED <<interaction, can_move, cmd, current_twist, curr_force>>

\* a tick that consumes the sample it processed
KeepSample_Consumes == latest_wrench' = None

\* the tick reads self.latest_wrench and never assigns it: the sample stays
\* for the next tick
KeepSample == UNCHANGED latest_wrench

\* TestVel.timer_callback(), with the outcome of the frame lookup
timer_callback(lookup) ==
  /\ last_cb' = [cb |-> "timer_callback", lookup |-> lookup.kind,
                 sample |-> latest_wrench # None, prior |-> interaction,
                 fresh |-> last_cb.fresh /\ (latest_wrench = None \/ lookup.kind # "ok")]
  /\ KeepSample
  /\ UNCHANGED <<joint_names, initial_joint_positions, joint_positions,
                 curr_pos, curr_vel, reached_start, reached_goal>>
  /\ UNCHANGED <<pidVars, nvVars, execVars, svcVars>>
  /\ IF latest_wrench = None \/ lookup.kind # "ok"
     THEN AbandonedTick
     ELSE LET force == transform_vector(lookup.rot, latest_wrench.force)
              torque0 == transform_vector(lookup.rot, latest_wrench.torque)
              cf == nullify_small_magnitudes(force, Fx(Threshold))
              torque == nullify_small_magnitudes(torque0, Fx(Threshold))
          IN /\ curr_force' = cf
             /\ IF MagnitudeBelow(cf, Fx(Threshold))
                THEN FreeMotionBranch
                ELSE InteractionBranch(cf, torque)

\* TestVel.joint_angles_callback(msg), with the command and the path flags
\* the controller answers
joint_angles_callback(msg, command, path) ==
  /\ joint_names' = IF joint_names = None THEN Roll(msg.name) ELSE joint_names
  /\ initial_joint_positions' =
       IF initial_joint_positions = None THEN Roll(msg.position)
       ELSE initial_joint_positions
  /\ joint_positions' =
       IF initial_joint_positions = None THEN Roll(msg.position) ELSE joint_positions
  /\ curr_pos' = Col(Roll(msg.position))
  /\ curr_vel' = Col(Roll(msg.velocity))
  /\ cmd' = command
  /\ reached_start' = (reached_start \/ path.start_T)
  /\ reached_goal' = (reached_goal \/ path.end_T)
  /\ published' = Nothing
  /\ last_cb' = [cb |-> "joint_angles_callback", lookup |-> "none", sample |-> FALSE,
                 prior |-> interaction, fresh |-> TRUE]
  /\ UNCHANGED <<latest_wrench, interaction, can_move, current_twist, curr_force>>
  /\ UNCHANGED <<pidVars, nvVars, execVars, svcVars>>

\* an emitter that does not look at can_move
publish_trajectory_IgnoresCanMove ==
  /\ published' =
       IF initial_joint_positions # None
       THEN [twist |-> <<>>,
             vel |-> <<[i \in 1..Len(joint_names) |-> cmd[i][i]]>>]
       ELSE Nothing
  /\ last_cb' = [cb |-> "publish_trajectory", lookup |-> "none", sample |-> FALSE,
                 prior |-> interaction, fresh |-> last_cb.fresh]
  /\ UNCHANGED <<latest_wrench, interaction, can_move, cmd, current_twist, curr_force,
                 joint_names, initial_joint_positions, joint_positions, curr_pos,
                 curr_vel, reached_start, reached_goal>>
  /\ UNCHANGED <<pidVars, nvVars, execVars, svcVars>>

\* TestVel.publish_trajectory()
publish_trajectory ==
  /\ published' =
       IF initial_joint_positions # None /\ can_move
       THEN [twist |-> <<>>,
             vel |-> <<[i \in 1..Len(joint_names) |-> cmd[i][i]]>>]
       ELSE Nothing
  /\ last_cb' = [cb |-> "publish_trajectory", lookup |-> "none", sample |-> FALSE,
                 prior |-> interaction, fresh |-> last_cb.fresh]
  /\ UNCHANGED <<latest_wrench, interaction, can_move, cmd, current_twist, curr_force,
                 joint_names, initial_joint_positions, joint_positions, curr_pos,
                 curr_vel, reached_start, reached_goal>>
  /\ UNCHANGED <<pidVars, nvVars, execVars, svcVars>>

NodeNext ==
  \/ \E msg \in Wrenches : wrench_callback(msg)
  \/ \E lookup \in LookupResults : timer_callback(lookup)
  \/ \E msg \in JointMsgs, command \in Commands, path \in PathStates :
       joint_angles_callback(msg, command, path)
  \/ publish_trajectory

(* --------------- the suppression function on its own ------------------- *)

\* the components and thresholds nullify_small_magnitudes is applied to
Components == {Fx(n) : n \in -2..3} \cup {NaN}
Thresholds == {Fx(0), Fx(3)}


NullifyInit ==
  /\ nv_vector \in {Vector3(x, y, z) : x \in Components, y \in Components, z \in Components}
  /\ nv_threshold \in Thresholds
  /\ nv_result = None

\* the call nullify_small_magnitudes(nv_vector, nv_threshold)
NullifyCall ==
  /\ nv_result = None
  /\ nv_result' = nullify_small_magnitudes(nv_vector, nv_threshold)
  /\ UNCHANGED <<nv_vector, nv_threshold>>
  /\ UNCHANGED <<pidVars, nodeVars, execVars, svcVars>>

(* ------------- the callbacks run by the executor ----------------------- *)

\* the callbacks of the node; create_timer and create_subscription are called
\* without a callback_group, so all of them are in the default group of the
\* node, which is mutually exclusive
Callbacks == {"wrench_callback", "timer_callback", "joint_angles_callback",
              "publish_trajectory"}

\* a group that lets every callback run beside the others
CanExecute_Reentrant(cb) == pc[cb] = "idle"

\* the executor hands a ready callback to a thread when its group can execute
\* it: when no callback of the group is running
CanExecute(cb) == \A other \in Callbacks : pc[other] = "idle"

NoLocals == [torque |-> ZeroVector, twist |-> ZeroTwist, vel |-> <<>>, msg |-> None]

modeVars == <<interaction, can_move, cmd, current_twist, curr_force>>
jointVars == <<joint_names, initial_joint_positions, joint_positions, curr_pos,
               curr_vel, reached_start, reached_goal>>

\* the callback cb moves to the statement label
Goto(cb, label) == pc' = [pc EXCEPT ![cb] = label]
\* what every statement leaves alone
ExecFrame == UNCHANGED <<last_cb, pidVars, nvVars, svcVars>>

\* wrench_callback: self.latest_wrench = msg
ExecWrench(msg) ==
  /\ CanExecute("wrench_callback")
  /\ latest_wrench' = msg
  /\ published' = Nothing
  /\ UNCHANGED <<modeVars, jointVars, pc, locals>>
  /\ ExecFrame

\* timer_callback, up to the assignment of curr_force
TimerLookup(lookup) ==
  /\ CanExecute("timer_callback")
  /\ published' = Nothing
  /\ UNCHANGED <<latest_wrench, interaction, can_move, cmd, current_twist, jointVars>>
  /\ ExecFrame
  /\ IF latest_wrench = None \/ lookup.kind # "ok"
     THEN UNCHANGED <<curr_force, pc, locals>>
     ELSE LET force == transform_vector(lookup.rot, latest_wrench.force)
              torque == transform_vector(lookup.rot, latest_wrench.torque)
          IN /\ curr_force' = nullify_small_magnitudes(force, Fx(Threshold))
             /\ locals' = [locals EXCEPT
                             !.torque = nullify_small_magnitudes(torque, Fx(Threshold))]
             /\ Goto("timer_callback", "mode")

\* timer_callback: the test of the magnitude and the assignment of interaction
TimerMode ==
  /\ pc["timer_callback"] = "mode"
  /\ IF MagnitudeBelow(curr_force, Fx(Threshold))
     THEN interaction' = FALSE /\ Goto("timer_callback", "free_can_move")
     ELSE interaction' = TRUE /\ Goto("timer_callback", "int_can_move")
  /\ published' = Nothing
  /\ UNCHANGED <<latest_wrench, can_move, cmd, current_twist, curr_force, jointVars,
                 locals>>
  /\ ExecFrame

\* timer_callback: the assignment of can_move
TimerCanMove ==
  /\ pc["timer_callback"] \in {"free_can_move", "int_can_move"}
  /\ IF pc["timer_callback"] = "free_can_move"
     THEN can_move' = TRUE /\ Goto("timer_callback", "free_cmd")
     ELSE can_move' = FALSE /\ Goto("timer_callback", "int_cmd")
  /\ published' = Nothing
  /\ UNCHANGED <<latest_wrench, interaction, cmd, current_twist, curr_force, jointVars,
                 locals>>
  /\ ExecFrame

\* timer_callback: the assignment of cmd, and the return of the free branch
TimerCmd ==
  /\ pc["timer_callback"] \in {"free_cmd", "int_cmd"}
  /\ cmd' = Zeros(num_dofs, num_dofs)
  /\ IF pc["timer_callback"] = "free_cmd"
     THEN Goto("timer_callback", "idle") /\ locals' = [locals EXCEPT !.torque = ZeroVector]
     ELSE Goto("timer_callback", "twist") /\ UNCHANGED locals
  /\ published' = Nothing
  /\ UNCHANGED <<latest_wrench, interaction, can_move, current_twist, curr_force,
                 jointVars>>
  /\ ExecFrame

\* timer_callback: the twist computed and stored in current_twist
TimerTwist ==
  /\ pc["timer_callback"] = "twist"
  /\ Representable(current_twist)
  /\ LET twist == ComplianceTwist(curr_force, locals.torque, current_twist) IN
       /\ current_twist' = twist
       /\ locals' = [locals EXCEPT !.twist = twist, !.torque = ZeroVector]
  /\ Goto("timer_callback", "publish")
  /\ published' = Nothing
  /\ UNCHANGED <<latest_wrench, interaction, can_move, cmd, curr_force, jointVars>>
  /\ ExecFrame

\* timer_callback: self.twist_pub_.publish(twist)
TimerPublish ==
  /\ pc["timer_callback"] = "publish"
  /\ published' = [twist |-> <<locals.twist>>, vel |-> <<>>]
  /\ locals' = [locals EXCEPT !.twist = ZeroTwist]
  /\ Goto("timer_callback", "idle")
  /\ UNCHANGED <<latest_wrench, modeVars, jointVars>>
  /\ ExecFrame

\* publish_trajectory: if self.initial_joint_positions is None: return
EmitCheckSample ==
  /\ CanExecute("publish_trajectory")
  /\ IF initial_joint_positions = None
     THEN UNCHANGED pc
     ELSE Goto("publish_trajectory", "check_move")
  /\ published' = Nothing
  /\ UNCHANGED <<latest_wrench, modeVars, jointVars, locals>>
  /\ ExecFrame

\* publish_trajectory: if self.can_move
EmitCheckMove ==
  /\ pc["publish_trajectory"] = "check_move"
  /\ IF can_move
     THEN Goto("publish_trajectory", "read")
     ELSE Goto("publish_trajectory", "idle")
  /\ published' = Nothing
  /\ UNCHANGED <<latest_wrench, modeVars, jointVars, locals>>
  /\ ExecFrame

\* publish_trajectory: one element self.cmd[i][i] of the list comprehension,
\* which evaluates self.cmd anew for every i
EmitRead ==
  /\ pc["publish_trajectory"] = "read"
  /\ LET i == Len(locals.vel) + 1 IN
       /\ locals' = [locals EXCEPT !.vel = Append(locals.vel, cmd[i][i])]
       /\ IF i = Len(joint_names)
          THEN Goto("publish_trajectory", "publish")
          ELSE UNCHANGED pc
  /\ published' = Nothing
  /\ UNCHANGED <<latest_wrench, modeVars, jointVars>>
  /\ ExecFrame

\* publish_trajectory: self.vel_pub.publish(traj_msg)
EmitPublish ==
  /\ pc["publish_trajectory"] = "publish"
  /\ published' = [twist |-> <<>>, vel |-> <<locals.vel>>]
  /\ locals' = [locals EXCEPT !.vel = <<>>]
  /\ Goto("publish_trajectory", "idle")
  /\ UNCHANGED <<latest_wrench, modeVars, jointVars>>
  /\ ExecFrame

\* joint_angles_callback: the joint names and the initial positions, kept
\* from the first message
JointFirst(msg) ==
  /\ CanExecute("joint_angles_callback")
  /\ joint_names' = IF joint_names = None THEN Roll(msg.name) ELSE joint_names
  /\ initial_joint_positions' =
       IF initial_joint_positions = None THEN Roll(msg.position)
       ELSE initial_joint_positions
  /\ joint_positions' =
       IF initial_joint_positions = None THEN Roll(msg.position) ELSE joint_positions
  /\ locals' = [locals EXCEPT !.msg = msg]
  /\ Goto("joint_angles_callback", "curr")
  /\ published' = Nothing
  /\ UNCHANGED <<latest_wrench, modeVars, curr_pos, curr_vel, reached_start,
                 reached_goal>>
  /\ ExecFrame

\* joint_angles_callback: the assignments of curr_pos and curr_vel
JointCurr ==
  /\ pc["joint_angles_callback"] = "curr"
  /\ curr_pos' = Col(Roll(locals.msg.position))
  /\ curr_vel' = Col(Roll(locals.msg.velocity))
  /\ locals' = [locals EXCEPT !.msg = None]
  /\ Goto("joint_angles_callback", "cmd")
  /\ published' = Nothing
  /\ UNCHANGED <<latest_wrench, modeVars, joint_names, initial_joint_positions,
                 joint_positions, reached_start, reached_goal>>
  /\ ExecFrame

\* joint_angles_callback: self.cmd = self.controller.get_command(...)
JointCmd(command) ==
  /\ pc["joint_angles_callback"] = "cmd"
  /\ cmd' = command
  /\ Goto("joint_angles_callback", "flags")
  /\ published' = Nothing
  /\ UNCHANGED <<latest_wrench, interaction, can_move, current_twist, curr_force,
                 jointVars, locals>>
  /\ ExecFrame

\* joint_angles_callback: the reached_start and reached_goal flags
JointFlags(path) ==
  /\ pc["joint_angles_callback"] = "flags"
  /\ reached_start' = (reached_start \/ path.start_T)
  /\ reached_goal' = (reached_goal \/ path.end_T)
  /\ Goto("joint_angles_callback", "idle")
  /\ published' = Nothing
  /\ UNCHANGED <<latest_wrench, modeVars, joint_names, initial_joint_positions,
                 joint_positions, curr_pos, curr_vel, locals>>
  /\ ExecFrame

ExecIdle == pc = [cb \in Callbacks |-> "idle"] /\ locals = NoLocals

ExecNext ==
  \/ \E msg \in Wrenches : ExecWrench(msg)
  \/ \E lookup \in LookupResults : TimerLookup(lookup)
  \/ TimerMode
  \/ TimerCanMove
  \/ TimerCmd
  \/ TimerTwist
  \/ TimerPublish
  \/ EmitCheckSample
  \/ EmitCheckMove
  \/ EmitRead
  \/ EmitPublish
  \/ \E msg \in JointMsgs : JointFirst(msg)
  \/ JointCurr
  \/ \E command \in Commands : JointCmd(command)
  \/ \E path \in PathStates : JointFlags(path)

(* ------------- the service calls of register_callbacks ----------------- *)

\* the two calls, in the order register_callbacks makes them
ServiceCalls == <<"enable_twist_command", "zero_ft_sensor">>

\* svc.call: the index of the call being made (Len(ServiceCalls) + 1 once
\* register_callbacks has returned); svc.at: "wait_for_service" or "spin";
\* svc.future: "none", "pending", or the result of the future
SvcStart == [call |-> 1, at |-> "wait_for_service", future |-> "none"]
SvcDone == [call |-> Len(ServiceCalls) + 1, at |-> "returned", future |-> "none"]
\* the call after the one being made
SvcReturn ==
  IF svc.call = Len(ServiceCalls) THEN SvcDone
  ELSE [call |-> svc.call + 1, at |-> "wait_for_service", future |-> "none"]
FutureResults == {"success", "failure", "no_result"}

\* wait_for_service(timeout_sec=1.0): False after a second when the service is
\* not there, and the call returns with a warning; else call_async(request)
WaitForService(available) ==
  /\ svc.call \in 1..Len(ServiceCalls)
  /\ svc.at = "wait_for_service"
  /\ svc' = IF available THEN [svc EXCEPT !.at = "spin", !.future = "pending"]
            ELSE SvcReturn
  /\ UNCHANGED <<pidVars, nodeVars, nvVars, execVars>>

\* the server answers the request
ServerResponds(result) ==
  /\ svc.future = "pending"
  /\ svc' = [svc EXCEPT !.future = result]
  /\ UNCHANGED <<pidVars, nodeVars, nvVars, execVars>>

\* rclpy.spin_until_future_complete(self, future), no timeout given: while the
\* future is pending the node is spun, and runs the callbacks that are ready
SpinOnce ==
  /\ svc.at = "spin"
  /\ svc.future = "pending"
  /\ \/ \E lookup \in LookupResults : timer_callback(lookup)
     \/ \E msg \in JointMsgs, command \in Commands, path \in PathStates :
          joint_angles_callback(msg, command, path)
     \/ publish_trajectory

\* the future is done: the result is logged and the call returns
SpinReturns ==
  /\ svc.at = "spin"
  /\ svc.future \in FutureResults
  /\ svc' = SvcReturn
  /\ UNCHANGED <<pidVars, nodeVars, nvVars, execVars>>

SvcIdle == svc = SvcDone

\* the steps of the node, and the step of the server
SvcProgram ==
  \/ \E available \in BOOLEAN : WaitForService(available)
  \/ SpinOnce
  \/ SpinReturns
SvcNext ==
  \/ SvcProgram
  \/ \E result \in FutureResults : ServerResponds(result)

(* --------------------------- specifications ---------------------------- *)

\* the function before it is applied
NullifyIdle ==
  /\ nv_vector = ZeroVector
  /\ nv_threshold = Fx(Threshold)
  /\ nv_result = None

\* the controller TestVel's gains would construct
PidIdle ==
  /\ PidInit
  /\ p_gain = Ones(num_dofs, 1, 1)

\* the PID controller under every sequence of its calls
PidSpecInit == PidInit /\ NodeInit /\ NullifyIdle /\ ExecIdle /\ SvcIdle
PidSpec == PidSpecInit /\ [][PidNext]_vars

\* the node under every sequence of its callbacks, each run to completion
Init == PidIdle /\ NodeInit /\ NullifyIdle /\ ExecIdle /\ SvcIdle
Next == NodeNext
Spec == Init /\ [][Next]_vars

\* nullify_small_magnitudes applied to every input of the bounded sets
NullifySpecInit == PidIdle /\ NodeInit /\ NullifyInit /\ ExecIdle /\ SvcIdle
NullifySpec == NullifySpecInit /\ [][NullifyCall]_vars

\* the node with its callbacks run statement by statement
ExecInit == PidIdle /\ NodeInit /\ NullifyIdle /\ ExecIdle /\ SvcIdle
ExecSpec == ExecInit /\ [][ExecNext]_vars

\* the node while register_callbacks makes its service calls: every step of
\* the node is taken when it stays possible, the server answers or does not
SvcInit == PidIdle /\ NodeInit /\ NullifyIdle /\ ExecIdle /\ svc = SvcStart
SvcSpec == SvcInit /\ [][SvcNext]_vars /\ WF_vars(SvcProgram)

(* --------------------------- claims on PID ------------------------------ *)

\* the step is a call of update_PID (the only operation that extends run)
IsUpdateStep == run'.n = run.n + 1
\* the error vector passed to the call of this step
ArgError == call'.error
\* the dt the call of this step works with
ArgEff == EffectiveDt(call'.dt, last_time, now)

ColEq(a, b) == \A k \in 1..num_dofs : a[k][1] = b[k][1]

\* C1: update_PID called with dt equal to 0, NaN or +Inf returns the all-zero
\* num_dofs x num_dofs matrix and leaves i_error and d_error as they were
C1_DegenerateDtZeroCommand ==
  [][(IsUpdateStep /\ call'.dt \in {Num(0), NaN, PosInf})
       => /\ ret' = Zeros(num_dofs, num_dofs)
          /\ i_error' = i_error
          /\ d_error' = d_error]_vars

\* C1 witness: a degenerate call made on a controller whose integral and
\* derivative state are non-zero
C1_Witness ==
  /\ call.op = "update_PID"
  /\ call.dt \in {Num(0), NaN, PosInf}
  /\ ret = Zeros(num_dofs, num_dofs)
  /\ i_error # Zeros(num_dofs, 1)
  /\ d_error # Zeros(num_dofs, 1)

\* C2 as stated: a degenerate-dt call of update_PID leaves every
\* ControllerState field (p_error, p_error_last, i_error, d_error, cmd) unchanged
C2_DegenerateKeepsAllState ==
  [][(IsUpdateStep /\ IsDegenerate(ArgEff))
       => /\ p_error' = p_error
          /\ p_error_last' = p_error_last
          /\ i_error' = i_error
          /\ d_error' = d_error
          /\ pid_cmd' = pid_cmd]_vars

\* C2 amended: a degenerate-dt call of update_PID sets p_error to the error
\* passed in and leaves p_error_last, i_error, d_error and cmd unchanged
C2_DegenerateKeepsAllButPError ==
  [][(IsUpdateStep /\ IsDegenerate(ArgEff))
       => /\ p_error' = ArgError
          /\ p_error_last' = p_error_last
          /\ i_error' = i_error
          /\ d_error' = d_error
          /\ pid_cmd' = pid_cmd]_vars

\* C2 witness: after a degenerate call p_error holds the new error while
\* p_error_last still holds the error of the earlier non-degenerate call
C2_Witness ==
  /\ call.op = "update_PID"
  /\ IsDegenerate(call.dt)
  /\ p_error = call.error
  /\ p_error # p_error_last
  /\ p_error_last # Zeros(num_dofs, 1)
  /\ pid_cmd # Zeros(Rows(pid_cmd), Cols(pid_cmd))

\* C3: a non-degenerate update_PID(error, dt) sets p_error = error,
\* i_error = i_error + dt*error, d_error = (error - p_error_last)/dt,
\* p_error_last = error, and returns the stored cmd, which is
\* p_gain*error + i_gain*i_error + d_gain*d_error element by element
C3_NonDegenerateUpdate ==
  [][(IsUpdateStep /\ ~IsDegenerate(ArgEff))
       => /\ p_error' = ArgError
          /\ \A k \in 1..num_dofs :
               /\ i_error'[k][1] = i_error[k][1] + ArgEff.v * ArgError[k][1]
               /\ d_error'[k][1] * ArgEff.v = ArgError[k][1] - p_error_last[k][1]
          /\ Shape(i_error') = <<num_dofs, 1>>
          /\ Shape(d_error') = <<num_dofs, 1>>
          /\ p_error_last' = ArgError
          /\ ret' = pid_cmd'
          /\ Shape(pid_cmd') = Shape(p_gain)
          /\ \A i \in 1..Rows(p_gain) : \A j \in 1..Cols(p_gain) :
               pid_cmd'[i][j] = p_gain[i][j] * ArgError[i][1]
                                + i_gain[i][j] * i_error'[i][1]
                                + d_gain[i][j] * d_error'[i][1]]_vars

\* C3 witness: a non-degenerate update whose error differs from the previous
\* one, with dt = 2
C3_Witness ==
  /\ call.op = "update_PID"
  /\ call.dt = Num(2)
  /\ run.n = 2
  /\ d_error # Zeros(num_dofs, 1)
  /\ i_error # SMul(2, p_error)
  /\ ret = pid_cmd

C5_ClockDerivedDt ==
  [][/\ (IsUpdateStep /\ call'.dt = NoneDt /\ last_time = None)
          => /\ last_time' = <<now>>
             /\ ret' = Zeros(num_dofs, num_dofs)
             /\ i_error' = i_error
     /\ (IsUpdateStep /\ call'.dt = NoneDt /\ last_time # None)
          => /\ last_time' = <<now>>
             /\ \A k \in 1..num_dofs :
                  i_error'[k][1] = i_error[k][1] + (now - last_time[1]) * ArgError[k][1]
             /\ (now = last_time[1]) => ret' = Zeros(num_dofs, num_dofs)
             /\ (now # last_time[1]) =>
                  \A k \in 1..num_dofs :
                    d_error'[k][1] * (now - last_time[1])
                      = ArgError[k][1] - p_error_last[k][1]
     /\ (IsUpdateStep /\ call'.dt # NoneDt)
          => /\ last_time' = last_time
             /\ (call'.dt.k = "num") =>
                  \A k \in 1..num_dofs :
                    i_error'[k][1] = i_error[k][1] + call'.dt.v * ArgError[k][1]
     /\ (call'.op \in {"init", "reset"}) => last_time' = None]_vars

\* C5 witness: a second clock-derived call, one tick after the first, has
\* accumulated 1 * error
C5_Witness ==
  /\ call.op = "update_PID"
  /\ call.dt = NoneDt
  /\ run.n = 2
  /\ last_time = <<now>>
  /\ now >= 1
  /\ i_error = p_error
  /\ i_error # Zeros(num_dofs, 1)

\* C6: reset() leaves p_error, p_error_last, i_error, d_error and cmd zero and
\* last_time absent whatever the state before, keeps the GainSet, and a reset
\* that follows a reset changes nothing
C6_ResetIdempotent ==
  [][(call'.op = "reset" /\ now' = now)
       => /\ p_error' = Zeros(num_dofs, 1)
          /\ p_error_last' = Zeros(num_dofs, 1)
          /\ i_error' = Zeros(num_dofs, 1)
          /\ d_error' = Zeros(num_dofs, 1)
          /\ pid_cmd' = Zeros(num_dofs, num_dofs)
          /\ last_time' = None
          /\ gainVars' = gainVars
          /\ (call.op = "reset") => (stateVars' = stateVars /\ last_time' = last_time)]_vars

\* C6 witness: a reset controller whose clock shows that updates came before
C6_Witness ==
  /\ call.op = "reset"
  /\ now > 0
  /\ i_error = Zeros(num_dofs, 1)
  /\ last_time = None

\* C7: set_gains(p, i, d, i_min, i_max) replaces the five GainSet fields by its
\* arguments and leaves p_error, p_error_last, i_error, d_error, cmd and
\* last_time unchanged
C7_SetGainsFrame ==
  [][(call'.op = "set_gains" /\ now' = now)
       => /\ p_gain' = call'.gains.p
          /\ i_gain' = call'.gains.i
          /\ d_gain' = call'.gains.d
          /\ i_min' = call'.gains.i_min
          /\ i_max' = call'.gains.i_max
          /\ stateVars' = stateVars
          /\ last_time' = last_time]_vars

\* C7 witness: new gains installed over a non-zero controller state
C7_Witness ==
  /\ call.op = "set_gains"
  /\ p_gain = Ones(num_dofs, 1, 2)
  /\ i_min = -2
  /\ i_error # Zeros(num_dofs, 1)
  /\ last_time # None
  /\ pid_cmd # Zeros(Rows(pid_cmd), Cols(pid_cmd))

\* C8: with per-DOF gain vectors the command (the stored cmd and the value
\* update_PID returns) is always a square num_dofs x num_dofs matrix whose
\* off-diagonal entries are zero
C8_CommandIsDiagonalMatrix ==
  (call.op = "update_PID" /\ Shape(p_gain) = <<num_dofs, 1>>)
    => /\ IsSquare(pid_cmd, num_dofs)
       /\ OffDiagonalZero(pid_cmd)
       /\ IsSquare(ret, num_dofs)
       /\ OffDiagonalZero(ret)

(* ----------------- claims on nullify_small_magnitudes ------------------ *)

\* the vector has a NaN component, so its magnitude is NaN
HasNaN(v) == v.x.k = "nan" \/ v.y.k = "nan" \/ v.z.k = "nan"
\* the square of the magnitude of a NaN-free vector
NormSquared(v) == v.x.v * v.x.v + v.y.v * v.y.v + v.z.v * v.z.v

\* C9: nullify_small_magnitudes(vector, threshold) returns the exact zero
\* vector when the magnitude of the vector is strictly below the threshold or
\* is NaN, and the vector itself otherwise, a magnitude equal to the threshold
\* included
C9_NullifySmallMagnitudes ==
  nv_result # None
    => nv_result =
         IF HasNaN(nv_vector)
            \/ NormSquared(nv_vector) < nv_threshold.v * nv_threshold.v
         THEN ZeroVector
         ELSE nv_vector

\* C9 witness: a vector of magnitude exactly 3.0 comes back unchanged for
\* the threshold 3.0
C9_Witness ==
  /\ nv_vector = Vector3(Fx(1), Fx(2), Fx(2))
  /\ nv_threshold = Fx(3)
  /\ nv_result = nv_vector

(* ------------------------ claims on the node --------------------------- *)

\* the last callback was a force tick that had a sample and a transform
TickCompleted ==
  last_cb.cb = "timer_callback" /\ last_cb.sample /\ last_cb.lookup = "ok"

\* C10: after a force tick that has a sample and a transform: below 3.0 the
\* node is in free motion (interaction false, can_move true), cmd is zero and
\* the tick published no twist; otherwise interaction is true, can_move false,
\* cmd is zero and the tick published exactly one twist
C10_ForceTickMode ==
  TickCompleted
    => /\ ~HasNaN(curr_force)
       /\ cmd = Zeros(num_dofs, num_dofs)
       /\ published.vel = <<>>
       /\ IF NormSquared(curr_force) < (Threshold * FixOne) * (Threshold * FixOne)
          THEN ~interaction /\ can_move /\ published.twist = <<>>
          ELSE interaction /\ ~can_move /\ Len(published.twist) = 1

\* C10 witness: a tick that leaves the interaction mode for free motion,
\* after the position feedback ran
C10_Witness ==
  /\ TickCompleted
  /\ last_cb.prior
  /\ ~interaction
  /\ can_move
  /\ curr_pos # None
  /\ cmd = Zeros(num_dofs, num_dofs)
  /\ published.twist = <<>>

\* the step is a force tick that had a sample and a transform
IsCompletedTick == TickCompleted'
\* the step is a force tick whose frame lookup failed
IsFailedTick ==
  last_cb'.cb = "timer_callback" /\ last_cb'.sample /\ last_cb'.lookup \in LookupFailures

\* C11 as stated: a force tick whose sample is below the interaction
\* threshold ends in free motion with can_move true and leaves cmd as the
\* position-feedback path last set it
C11_FreeMotionKeepsCommand ==
  [][(IsCompletedTick /\ ~interaction')
       => /\ can_move'
          /\ cmd' = cmd]_vars

\* C11 amended: a force tick whose sample is below the interaction threshold
\* ends in free motion with can_move true and resets cmd to the zero matrix,
\* whatever the position-feedback path last set
C11_FreeMotionZeroesCommand ==
  [][(IsCompletedTick
        /\ NormSquared(curr_force') < (Threshold * FixOne) * (Threshold * FixOne))
       => /\ ~interaction'
          /\ can_move'
          /\ cmd' = Zeros(num_dofs, num_dofs)]_vars

\* C11 witness: a tick in free motion on the sample of magnitude sqrt(8),
\* run after the position feedback and before it reached the path's start
C11_Witness ==
  /\ TickCompleted
  /\ latest_wrench # None
  /\ latest_wrench.force = Vector3(Fx(2), Fx(2), Fx(0))
  /\ ~last_cb.prior
  /\ ~interaction
  /\ can_move
  /\ curr_vel # None
  /\ cmd = Zeros(num_dofs, num_dofs)

\* C12: a force tick whose frame lookup fails with LookupException,
\* ConnectivityException or ExtrapolationException writes nothing:
\* interaction, can_move, cmd, current_twist and the conditioned force keep
\* their values, no twist is published, and the tick ends as a callback
\* that returned, after which every callback can run
C12_FailedLookupAbandonsTick ==
  [][IsFailedTick
       => /\ interaction' = interaction
          /\ can_move' = can_move
          /\ cmd' = cmd
          /\ current_twist' = current_twist
          /\ curr_force' = curr_force
          /\ latest_wrench' = latest_wrench
          /\ published' = Nothing]_vars

\* C12 witness: a tick abandoned on an extrapolation failure while the node
\* is in interaction, a twist is stored and a command is pending
C12_Witness ==
  /\ last_cb.cb = "timer_callback"
  /\ last_cb.sample
  /\ last_cb.lookup = "ExtrapolationException"
  /\ interaction
  /\ ~can_move
  /\ cmd # Zeros(num_dofs, num_dofs)
  /\ current_twist # ZeroTwist
  /\ published = Nothing

\* new = (1 / Kp) * signal - Kd * previous on one axis, cleared of fractions
AxisLaw(new, signal, previous) ==
  /\ new.k = "num" /\ signal.k = "num" /\ previous.k = "num"
  /\ KdDen * Kp * new.v = KdDen * signal.v - KdNum * Kp * previous.v
VectorLaw(new, signal, previous) ==
  /\ AxisLaw(new.x, signal.x, previous.x)
  /\ AxisLaw(new.y, signal.y, previous.y)
  /\ AxisLaw(new.z, signal.z, previous.z)
\* the step is a force tick that took the interaction branch
IsInteractionTick == IsCompletedTick /\ interaction'

\* C13: in every interaction tick the twist published is, on each linear axis,
\* (1/Kp) * conditioned force - Kd * previous twist, and on each angular axis
\* (1/Kp) * conditioned torque - Kd * previous twist, the conditioned force
\* and torque being the sample rotated into the tool frame and suppressed
\* below the threshold
C13_ComplianceLaw ==
  [][IsInteractionTick
       => \E r \in Rotations :
            LET force == nullify_small_magnitudes(
                           transform_vector(r, latest_wrench.force), Fx(Threshold))
                torque == nullify_small_magnitudes(
                            transform_vector(r, latest_wrench.torque), Fx(Threshold))
            IN /\ curr_force' = force
               /\ Len(published'.twist) = 1
               /\ VectorLaw(published'.twist[1].linear, force, current_twist.linear)
               /\ VectorLaw(published'.twist[1].angular, torque,
                            current_twist.angular)]_vars

\* C13 witness: with Kp = 1.0 and Kd = 0.1, a conditioned force of 4.0 on x
\* gives a linear x of 4.0, which the law allows only for a previous linear
\* x of zero; the torque was above the threshold as well
C13_Witness ==
  /\ TickCompleted
  /\ interaction
  /\ curr_force = Vector3(Fx(4), Fx(0), Fx(0))
  /\ Len(published.twist) = 1
  /\ published.twist[1].linear.x = Fx(4)
  /\ published.twist[1].angular.z = Fx(5)

\* C14: the stored previous twist is the zero twist until a tick computes a
\* twist: only an interaction tick changes it; at the end of every tick that
\* publishes a twist the stored twist is the twist published, and that twist
\* was damped by the one stored before the tick
C14_PreviousTwist ==
  /\ current_twist = ZeroTwist
  /\ [][/\ (current_twist' # current_twist) => IsInteractionTick
        /\ (Len(published'.twist) = 1)
             => /\ IsInteractionTick
                /\ current_twist' = published'.twist[1]
                /\ published'.twist[1].linear
                     = ComplianceVector(curr_force', current_twist.linear)]_vars

\* C14 witness: the second of two consecutive interaction ticks, whose twist
\* differs from the conditioned force by the damping of the first
C14_Witness ==
  /\ TickCompleted
  /\ last_cb.prior
  /\ interaction
  /\ published.twist = <<current_twist>>
  /\ current_twist.linear # curr_force
  /\ current_twist.linear.x.v + current_twist.linear.y.v
       + current_twist.linear.z.v = 4 * FixOne - (4 * FixOne) \div KdDen

\* the step is a run of the velocity emitter
IsEmitterRun == last_cb'.cb = "publish_trajectory"

\* C15: one run of publish_trajectory publishes nothing when no position
\* sample was observed, nothing when can_move is false whatever cmd holds,
\* and otherwise exactly one vector whose i-th entry is cmd[i][i]; it never
\* publishes a twist and changes no field of the node
C15_EmitterGate ==
  [][IsEmitterRun
       => /\ UNCHANGED <<latest_wrench, interaction, can_move, cmd, current_twist,
                         curr_force, joint_names, initial_joint_positions,
                         joint_positions, curr_pos, curr_vel, reached_start,
                         reached_goal>>
          /\ published'.twist = <<>>
          /\ IF curr_pos = None \/ ~can_move
             THEN published'.vel = <<>>
             ELSE /\ Len(published'.vel) = 1
                  /\ Len(published'.vel[1]) = num_dofs
                  /\ \A i \in 1..num_dofs : published'.vel[1][i] = cmd[i][i]]_vars

\* C15 witness: the emitter ran with a position sample observed and the
\* command diag(1..6) pending while can_move was false, and published nothing
C15_Witness ==
  /\ last_cb.cb = "publish_trajectory"
  /\ curr_pos # None
  /\ ~can_move
  /\ cmd = Diag(<<1, 2, 3, 4, 5, 6>>)
  /\ published = Nothing

(* ------------------ claims on the executor and the services ------------ *)

\* the values cmd takes: the commands of the controller and the zero matrix
CommandValues == Commands \cup {Zeros(num_dofs, num_dofs)}
Diagonal(c) == [i \in 1..num_dofs |-> c[i][i]]

\* C16: with the callbacks run statement by statement as the executor
\* schedules them, every velocity vector published is the diagonal of one
\* value of cmd, never entries read from two values
C16_EmittedFromOneCommand ==
  \A k \in 1..Len(published.vel) :
    \E c \in CommandValues : published.vel[k] = Diagonal(c)

\* C16 witness: the emitter published the diagonal of diag(1..6), read entry
\* by entry, while the force feed had a sample and a tick had conditioned it
C16_Witness ==
  /\ published.vel = <<Diagonal(Diag(<<1, 2, 3, 4, 5, 6>>))>>
  /\ latest_wrench # None
  /\ curr_force # None
  /\ pc["publish_trajectory"] = "idle"

\* C17: a velocity vector is published only while can_move is true, and only
\* the can_move assignment of a force tick changes can_move: after a tick
\* cleared it nothing is published until a tick sets it again, also by an
\* emitter that had passed its test of can_move
C17_NoEmissionWhileStopped ==
  [][/\ (published'.vel # <<>>) => (can_move /\ can_move')
     /\ (can_move' # can_move)
          => pc["timer_callback"] \in {"free_can_move", "int_can_move"}
     /\ (pc["timer_callback"] = "int_can_move" /\ pc'["timer_callback"] = "int_cmd")
          => (~can_move' /\ pc["publish_trajectory"] = "idle")]_vars

\* C17 witness: the emitter has passed its test of can_move and read the
\* command, while a sample above the threshold waits for the next force tick
C17_Witness ==
  /\ pc["publish_trajectory"] = "publish"
  /\ locals.vel = Diagonal(Diag(<<1, 2, 3, 4, 5, 6>>))
  /\ can_move
  /\ latest_wrench # None
  /\ latest_wrench.force = Vector3(Fx(4), Fx(0), Fx(0))
  /\ pc["timer_callback"] = "idle"

\* C18: no service call blocks for ever: enable_twist_command and
\* zero_ft_sensor both return, and register_callbacks with them, whether the
\* service is missing or is there and never answers
C18_ServiceCallsReturn == <>(svc.at = "returned")

(* ------------------ claims on the node, continued ---------------------- *)

\* the sample held has a force of magnitude 3.0 or more
StrongSample ==
  /\ latest_wrench # None
  /\ ~HasNaN(latest_wrench.force)
  /\ NormSquared(latest_wrench.force) >= (Threshold * FixOne) * (Threshold * FixOne)
\* the step is a force tick run before any sample arrived
IsEmptyTick == last_cb'.cb = "timer_callback" /\ ~last_cb'.sample

\* C19: a force tick run before any sample changes no field and publishes
\* nothing; every later tick works on the sample received last and leaves
\* it in place for the next tick; so while no new sample arrives and the
\* sample held is at or above 3.0, every tick that has its transform publishes
\* a twist and can_move, once false, stays false
C19_SampleReused ==
  [][/\ IsEmptyTick
          => /\ UNCHANGED <<latest_wrench, interaction, can_move, cmd, current_twist,
                            curr_force, joint_names, initial_joint_positions,
                            joint_positions, curr_pos, curr_vel, reached_start,
                            reached_goal>>
             /\ published' = Nothing
     /\ IsCompletedTick
          => /\ latest_wrench' = latest_wrench
             /\ \E r \in Rotations :
                  curr_force' = nullify_small_magnitudes(
                                  transform_vector(r, latest_wrench.force),
                                  Fx(Threshold))
     /\ (IsCompletedTick /\ StrongSample)
          => (Len(published'.twist) = 1 /\ ~can_move')
     /\ (StrongSample /\ ~can_move /\ last_cb'.cb # "wrench_callback")
          => (StrongSample' /\ ~can_move')]_vars

\* C19 witness: the second tick on the same sample of magnitude 3.0: the twist
\* stored is the force damped by the twist of the first tick, 0.9 times the
\* force, and can_move is still false
C19_Witness ==
  /\ TickCompleted
  /\ last_cb.prior
  /\ StrongSample
  /\ latest_wrench.force = Vector3(Fx(1), Fx(2), Fx(2))
  /\ curr_force = latest_wrench.force
  /\ current_twist.linear
       = Vector3(Num((9 * FixOne) \div 10), Num((18 * FixOne) \div 10),
                 Num((18 * FixOne) \div 10))
  /\ ~can_move

\* C20: whatever the order of the named channels of the incoming samples,
\* curr_pos and curr_vel hold the sample in the one joint order fixed by
\* joint_names: their i-th entries are the position and the velocity of the
\* joint joint_names[i]
C20_FixedJointOrdering ==
  curr_pos # None
    => \E sm \in JointSamples :
         \A i \in 1..num_dofs :
           /\ curr_pos[i][1] = sm.pos[joint_names[i]]
           /\ curr_vel[i][1] = sm.vel[joint_names[i]]

\* C21: a force tick that ends in free motion leaves current_twist as it
\* was, and so does every step taken in free motion; hence the first
\* interaction tick after a free-motion period is damped by the twist stored
\* before that period, that of the last interaction tick
C21_FreeMotionKeepsTwist ==
  [][/\ ~interaction' => current_twist' = current_twist
     /\ (IsInteractionTick /\ ~interaction)
          => /\ published'.twist = <<current_twist'>>
             /\ VectorLaw(current_twist'.linear, curr_force', current_twist.linear)
             /\ \E r \in Rotations :
                  VectorLaw(current_twist'.angular,
                            nullify_small_magnitudes(
                              transform_vector(r, latest_wrench.torque), Fx(Threshold)),
                            current_twist.angular)]_vars

\* C21 witness: an interaction tick that follows free motion and is damped
\* by a twist that is not zero, the one of the interaction before
C21_Witness ==
  /\ TickCompleted
  /\ ~last_cb.prior
  /\ interaction
  /\ published.twist = <<current_twist>>
  /\ curr_force = Vector3(Fx(4), Fx(0), Fx(0))
  /\ current_twist.linear.x # Fx(4)

\* the squared magnitude of 3.0
ThresholdSquared == (Threshold * FixOne) * (Threshold * FixOne)

\* C22: the conditioned force of every tick is the zero vector or the rotated
\* force itself with a magnitude of 3.0 or more; the tick ends in free motion
\* exactly when the magnitude of the rotated force is below 3.0 or NaN,
\* whatever the torque, and then publishes no twist; a twist published has a
\* linear part computed from the rotated force, unmodified
C22_ThresholdsAgree ==
  [][IsCompletedTick
       => \E r \in Rotations :
            LET rotated == transform_vector(r, latest_wrench.force)
                weak == HasNaN(rotated) \/ NormSquared(rotated) < ThresholdSquared
            IN /\ curr_force' = IF weak THEN ZeroVector ELSE rotated
               /\ ~HasNaN(curr_force')
               /\ curr_force' = ZeroVector \/ NormSquared(curr_force') >= ThresholdSquared
               /\ ~interaction' <=> weak
               /\ weak => published' = Nothing
               /\ ~weak
                    => /\ Len(published'.twist) = 1
                       /\ VectorLaw(published'.twist[1].linear, rotated,
                                    current_twist.linear)]_vars

\* C22 witness: a sample with a force of magnitude sqrt(8) and a torque of
\* magnitude 5 ended in free motion, its conditioned force zero, no twist
C22_Witness ==
  /\ TickCompleted
  /\ latest_wrench # None
  /\ latest_wrench.force = Vector3(Fx(2), Fx(2), Fx(0))
  /\ latest_wrench.torque = Vector3(Fx(0), Fx(0), Fx(5))
  /\ curr_force = ZeroVector
  /\ ~interaction
  /\ published = Nothing

\* the step is a force tick
IsForceTick == last_cb'.cb = "timer_callback"

\* C24: with the callbacks run to completion, can_move = ~interaction in
\* every state: it holds at construction, every step keeps it, and only a
\* force tick changes either flag
C24_FlagsOpposite ==
  /\ interaction = FALSE
  /\ can_move = TRUE
  /\ [][/\ can_move' = ~interaction'
        /\ ~IsForceTick => (can_move' = can_move /\ interaction' = interaction)]_vars

\* C24 witness: the position feedback ran while the node was in interaction,
\* after it had been in free motion with a command
C24_Witness ==
  /\ last_cb.cb = "joint_angles_callback"
  /\ interaction
  /\ ~can_move
  /\ reached_goal
  /\ cmd # Zeros(num_dofs, num_dofs)

\* the emitter published a vector with an entry that is not zero
EmittedNonZero ==
  \E k \in 1..Len(published'.vel) :
    \E i \in 1..Len(published'.vel[k]) : published'.vel[k][i] # 0

\* C23: every force tick that has a sample and a transform zeroes cmd, and
\* only the position feedback writes a cmd that is not zero; so the emitter
\* publishes an entry that is not zero only if the position feedback ran
\* after the last such tick, and when the tick wrote cmd last the emitter in
\* free motion publishes the all-zero vector
C23_CommandNeedsFeedback ==
  [][/\ IsCompletedTick => (cmd' = Zeros(num_dofs, num_dofs) /\ ~last_cb'.fresh)
     /\ (cmd' # cmd /\ cmd' # Zeros(num_dofs, num_dofs))
          => last_cb'.cb = "joint_angles_callback"
     /\ (last_cb'.fresh /\ ~last_cb.fresh) => last_cb'.cb = "joint_angles_callback"
     /\ ~last_cb'.fresh => cmd' = Zeros(num_dofs, num_dofs)
     /\ (IsEmitterRun /\ EmittedNonZero) => last_cb.fresh
     /\ (IsEmitterRun /\ ~last_cb.fresh /\ curr_pos # None /\ can_move)
          => published'.vel = <<[i \in 1..num_dofs |-> 0]>>]_vars

\* C23 witness: the emitter ran in free motion after a force tick that wrote
\* cmd last, the position feedback having run before that tick, and
\* published the all-zero vector
C23_Witness ==
  /\ last_cb.cb = "publish_trajectory"
  /\ ~last_cb.fresh
  /\ curr_force # None
  /\ curr_pos # None
  /\ reached_start
  /\ can_move
  /\ published.vel = <<[i \in 1..num_dofs |-> 0]>>

(* --------------------- claims on PID, continued ------------------------ *)

====
